---- MODULE Spec2Model ----
(***************************************************************************)
(* Model of ddev release testable (release/testable.py): the loop that   *)
(* walks the git log diff, resolves each change to a pull request, drops   *)
(* duplicates and filtered pull requests, and creates Trello cards either  *)
(* automatically from the label-to-team map or from an interactive menu,   *)
(* with the bounded retry loop of create_trello_card.                      *)
(***************************************************************************)
EXTENDS Integers, Sequences, FiniteSets, TLC

VARIABLES
    ref_value,       \* the value handed to validate_version
    ignore,          \* the ignore argument of validate_version
    version,         \* what validate_version returned or raised
    repo,            \* basepath(root)
    dry_run,         \* --dry-run
    milestone,       \* --milestone ("" when not given)
    label_team_map,  \* trello.label_team_map, a set of <<label, team>> pairs
    pc,              \* position of the run in testable / create_trello_card
    result,          \* the result of the last run_command
    diff_data,       \* [(commit_hash, commit_subject), ...]
    i,               \* enumerate(diff_data, 1)
    commit_ids,      \* the run-scoped set of seen ids
    commit_id,       \* id of the change being processed
    pr_data,         \* labels and milestone of the resolved pull request
    choice_error,    \* message of the last invalid choice, "" when none
    choice,          \* the choice after stripping and defaulting
    teams,           \* argument of the create_trello_card call in progress
    t,               \* position of for team in teams
    attempt,         \* for attempt in range(3)
    \* ---- observations of what the run did (not read by the program)
    status,          \* status code of the last GitHub answer, 0 before any
    lookup,          \* how the last GitHub lookup was made: by number or by hash
    responses,       \* the answers of client.create_card for the current team
    key,             \* the raw key last returned by click.getchar()
    displayed,       \* what the last rendering of the prompt showed
    response,        \* the last answer of client.create_card for the current team
    calls,           \* client.create_card calls made for the current team
    sleeps,          \* time.sleep durations for the current team, in order
    outcome,         \* message reported for the current team
    outcomes,        \* outcomes of the teams already left in this call
    processed,       \* ids that got past the dedup check, in order
    failed_before    \* some earlier team of the run ended without a card

vars == <<ref_value, ignore, version, repo, dry_run, milestone, label_team_map, pc,
          result, diff_data, i, commit_ids, commit_id, pr_data, choice_error,
          choice, teams, t, attempt, status, lookup, responses, key, displayed,
          response, calls, sleeps, outcome, outcomes, processed, failed_before>>

----------------------------------------------------------------------------
(* Bounds of the model *)

\* longest git log diff explored
MaxChanges == 2

\* longest ref given on the command line
MaxLen == 7

(* Program constants *)

\* creation_attempts = 3
creation_attempts == 3
\* wait_time after a rate-limited response
RateLimitWait == 10
\* wait_time after an error response
ErrorWait == 2
\* range(3)
RangeAttempts == 3

----------------------------------------------------------------------------
(* Inputs: repositories, subjects, GitHub and Trello answers, keys *)

Repos == {"integrations-core", "datadog-agent", "other"}

\* commit subjects of the log: one without a PR reference, one with one
Subjects == {"Bump version", "Fix check (#10)"}

\* numbers GitHub's commit search can answer with
PRNumbers == {10, 11}

\* the labels in the order sorted() gives them
AllLabels == << <<"changelog", "Fixed">>, <<"changelog", "no-changelog">>,
                <<"documentation">>, <<"team", "containers">>,
                <<"team", "core">> >>


Documentation == <<"documentation">>
Fixed == <<"changelog", "Fixed">>
NoChangelog == <<"changelog", "no-changelog">>
TeamContainers == <<"team", "containers">>
TeamCore == <<"team", "core">>

\* the pull requests GitHub can answer with: their labels and milestone
PullRequests ==
    { [labels |-> {}, milestone |-> ""],
      [labels |-> {Documentation}, milestone |-> "7.17.0"],
      [labels |-> {Documentation, NoChangelog, TeamCore}, milestone |-> "7.17.0"],
      [labels |-> {Documentation, Fixed}, milestone |-> "7.17.0"],
      [labels |-> {Fixed, TeamContainers}, milestone |-> "7.16.0"],
      [labels |-> {Fixed, TeamContainers, TeamCore}, milestone |-> "7.17.0"],
      [labels |-> {Fixed, TeamCore}, milestone |-> ""],
      [labels |-> {Fixed}, milestone |-> "7.17.0"] }

MilestoneFilters == {"", "7.17.0"}

LabelTeamMaps == { {},
                   { << <<"team", "containers">>, "Containers" >>,
                     << <<"team", "core">>, "Core" >> } }

StatusCodes == {200, 401, 403, 404, 500}

\* what the commit search holds under 'items'
SearchResults == {"no items key", "empty list"} \cup {ToString(n) : n \in PRNumbers}

\* (rate_limited, error, response) of client.create_card
CardResponses == {"rate_limited", "error", "success"}

\* keys click.getchar() can return: CR is whitespace, NUL is the erroneous
\* null byte, 5 is an option of datadog-agent only, x is no option
RawKeys == {"CR", "NUL", "1", "3", "5", "s", "q", "x"}

Whitespace == {"CR", "SPACE"}

NoPR == [labels |-> {}, milestone |-> ""]

NoDisplay == [i |-> 0, id |-> "", error |-> FALSE]

\* the characters refs are written with
VersionChars == {"7", "x", ".", "-"}

\* the default of target_ref
OriginMaster == <<"o", "r", "i", "g", "i", "n", "/", "m", "a", "s", "t", "e", "r">>

\* the values click hands to validate_version
RefValues == UNION {[1..n -> VersionChars] : n \in 0..MaxLen} \cup {OriginMaster}

\* the ignore lists of the two arguments: base_ref has none
IgnoreLists == {{}, {OriginMaster}}

\* no run_command result is held
NoResult == [cmd |-> "none", code |-> 0, stale |-> FALSE, stdout |-> <<>>]

\* validate_version has not run
NotValidated == [raised |-> "none", returned |-> <<>>]

----------------------------------------------------------------------------
(* Helpers *)

\* the hash of the k-th commit of the log
CommitHash(k) == "h" \o ToString(k)

\* parse_pr_number(commit_subject): the number in "(#N)", "" when absent
parse_pr_number(subject) ==
    IF subject = "Fix check (#10)" THEN "10" ELSE ""

\* all logs of at most MaxChanges commits, oldest first
DiffLists ==
    UNION { { [k \in 1..n |-> <<CommitHash(k), s[k]>>] : s \in [1..n -> Subjects] }
            : n \in 0..MaxChanges }

\* reversed(lines)
Reverse(seq) == [k \in 1..Len(seq) |-> seq[Len(seq) + 1 - k]]

\* what git log prints for the logs of DiffLists: newest first
LogOutputs == {Reverse(d) : d \in DiffLists}

\* the options dictionaries, in insertion order
OptionsOf(r) ==
    IF r = "integrations-core"
    THEN << <<"1", "Integrations">>, <<"2", "Containers">>, <<"3", "Core">>,
            <<"4", "Platform">>, <<"s", "Skip">>, <<"q", "Quit">> >>
    ELSE << <<"1", "Core">>, <<"2", "Containers">>, <<"3", "Logs">>,
            <<"4", "Platform">>, <<"5", "Process">>, <<"6", "Trace">>,
            <<"7", "Integrations">>, <<"s", "Skip">>, <<"q", "Quit">> >>

\* get_next(options): the first key of the dictionary
get_next(options) == options[1][1]

\* choice in options
InOptions(c, options) == \E k \in 1..Len(options) : options[k][1] = c

\* options[choice]
OptionValue(c, options) ==
    LET k == CHOOSE k \in 1..Len(options) : options[k][1] = c IN options[k][2]

\* click.getchar().strip()
Strip(k) == IF k \in Whitespace THEN "" ELSE k

\* sorted(get_pr_labels(pr_data))
SortedLabels(labels) == SelectSeq(AllLabels, LAMBDA l : l \in labels)

\* label.startswith('documentation') for some label
documentation_pr(labels) == \E l \in labels : l[1] = "documentation"

\* mutant: the none type counts as a changelog type
nochangelog_pr_AnyType(labels) ==
    ~ \E l \in labels :
        /\ Len(l) >= 2
        /\ l[1] = "changelog"

\* no label starts with CHANGELOG_LABEL_PREFIX and names a type other than
\* CHANGELOG_TYPE_NONE
nochangelog_pr(labels) ==
    ~ \E l \in labels :
        /\ Len(l) >= 2
        /\ l[1] = "changelog"
        /\ l[2] # "no-changelog"

\* mutant: a pull request without a milestone is let through
MilestoneMismatch_IgnoreMissing(filter, pr_milestone) ==
    filter # "" /\ pr_milestone # "" /\ pr_milestone # filter

\* pr_milestone != milestone under a requested filter
MilestoneMismatch(filter, pr_milestone) == filter # "" /\ pr_milestone # filter

\* trello.label_team_map[label]
TeamOf(label, map) == (CHOOSE p \in map : p[1] = label)[2]

\* mutant: only the first mapped label is routed
TeamsOf_FirstOnly(labels, map) ==
    LET mapped == SelectSeq(SortedLabels(labels), LAMBDA l : \E p \in map : p[1] = l)
    IN  IF mapped = <<>> THEN <<>> ELSE <<TeamOf(mapped[1], map)>>

\* [trello.label_team_map[label] for label in pr_labels if label in trello.label_team_map]
TeamsOf(labels, map) ==
    LET mapped == SelectSeq(SortedLabels(labels), LAMBDA l : \E p \in map : p[1] = l)
    IN  [k \in 1..Len(mapped) |-> TeamOf(mapped[k], map)]

\* commit_id and commit_id in commit_ids
IsDuplicate(id, seen) == id # "" /\ id \in seen

\* mutant: the id is not recorded
AddSeen_Forget(id, seen) == seen

\* commit_ids.add(commit_id)
AddSeen(id, seen) == seen \cup {id}

\* mutant: an empty choice is not replaced by the default
ResolveChoice_NoDefault(c, options) == c

\* if not choice: choice = default_option
ResolveChoice(c, options) == IF c = "" THEN get_next(options) ELSE c

\* mutant: no error text is kept
InvalidMessage_Empty(c) == ""

\* the choice_error text for a choice that is not in options
InvalidMessage(c) == c \o " is not a valid option."

\* mutant: a rate-limited answer waits like an error
AttemptResult_ShortRateWait(resp, att) ==
    CASE resp = "rate_limited" ->
            [sleep |-> ErrorWait, report |-> "none", break |-> FALSE]
      [] resp = "error" /\ att + 1 = creation_attempts ->
            [sleep |-> 0, report |-> "failure", break |-> TRUE]
      [] resp = "error" ->
            [sleep |-> ErrorWait, report |-> "none", break |-> FALSE]
      [] OTHER ->
            [sleep |-> 0, report |-> "success", break |-> TRUE]

\* mutant: the last attempt is tested as attempt == creation_attempts
AttemptResult_OffByOne(resp, att) ==
    CASE resp = "rate_limited" ->
            [sleep |-> RateLimitWait, report |-> "none", break |-> FALSE]
      [] resp = "error" /\ att = creation_attempts ->
            [sleep |-> 0, report |-> "failure", break |-> TRUE]
      [] resp = "error" ->
            [sleep |-> ErrorWait, report |-> "none", break |-> FALSE]
      [] OTHER ->
            [sleep |-> 0, report |-> "success", break |-> TRUE]

\* mutant: a success does not leave the loop
AttemptResult_NoBreakOnSuccess(resp, att) ==
    CASE resp = "rate_limited" ->
            [sleep |-> RateLimitWait, report |-> "none", break |-> FALSE]
      [] resp = "error" /\ att + 1 = creation_attempts ->
            [sleep |-> 0, report |-> "failure", break |-> TRUE]
      [] resp = "error" ->
            [sleep |-> ErrorWait, report |-> "none", break |-> FALSE]
      [] OTHER ->
            [sleep |-> 0, report |-> "success", break |-> FALSE]

\* one pass of the body of for attempt in range(3) on a response: the
\* sleep it makes (0 for none), the message it reports, whether it breaks
AttemptResult(resp, att) ==
    CASE resp = "rate_limited" ->
            [sleep |-> RateLimitWait, report |-> "none", break |-> FALSE]
      [] resp = "error" /\ att + 1 = creation_attempts ->
            [sleep |-> 0, report |-> "failure", break |-> TRUE]
      [] resp = "error" ->
            [sleep |-> ErrorWait, report |-> "none", break |-> FALSE]
      [] OTHER ->
            [sleep |-> 0, report |-> "success", break |-> TRUE]

----------------------------------------------------------------------------
(* validate_version *)

DigitChars == <<"0", "1", "2", "3", "4", "5", "6", "7", "8", "9">>

IsDigit(c) == \E d \in 1..10 : DigitChars[d] = c

LetterChars == {"a", "b", "c", "d", "e", "f", "g", "h", "i", "j", "k", "l", "m",
                "n", "o", "p", "q", "r", "s", "t", "u", "v", "w", "x", "y", "z"}

\* str.split(sep)
RECURSIVE Split(_, _)
Split(s, sep) ==
    IF \A k \in 1..Len(s) : s[k] # sep
    THEN <<s>>
    ELSE LET k == CHOOSE j \in 1..Len(s) :
                      s[j] = sep /\ \A h \in 1..(j - 1) : s[h] # sep
         IN  <<SubSeq(s, 1, k - 1)>> \o Split(SubSeq(s, k + 1, Len(s)), sep)

\* sep.join(parts)
RECURSIVE Join(_, _)
Join(parts, sep) ==
    IF Len(parts) = 0 THEN <<>>
    ELSE IF Len(parts) = 1 THEN parts[1]
    ELSE parts[1] \o <<sep>> \o Join(Tail(parts), sep)

\* int() of a numeric identifier
RECURSIVE ToInt(_)
ToInt(s) ==
    IF Len(s) = 0 THEN 0
    ELSE 10 * ToInt(SubSeq(s, 1, Len(s) - 1))
         + (CHOOSE d \in 0..9 : DigitChars[d + 1] = s[Len(s)])

\* str() of a non-negative int
RECURSIVE IntToStr(_)
IntToStr(n) ==
    IF n < 10 THEN <<DigitChars[n + 1]>>
    ELSE IntToStr(n \div 10) \o <<DigitChars[(n % 10) + 1]>>

\* a major, minor or patch of the semver format: no leading zero
NumericIdentifier(s) ==
    /\ Len(s) > 0
    /\ \A k \in 1..Len(s) : IsDigit(s[k])
    /\ (s[1] = "0" => Len(s) = 1)

\* one dot-separated part of the r of M.m.p-r
PrereleaseIdentifier(s) ==
    /\ Len(s) > 0
    /\ \A k \in 1..Len(s) : IsDigit(s[k]) \/ s[k] \in LetterChars \/ s[k] = "-"
    /\ (s[1] = "0" => Len(s) = 1)

\* semver.parse_version_info under the try of parse_version: ok is FALSE
\* where it raises ValueError
parse_version(v) ==
    LET dash == IF \E k \in 1..Len(v) : v[k] = "-"
                THEN CHOOSE j \in 1..Len(v) :
                         v[j] = "-" /\ \A h \in 1..(j - 1) : v[h] # "-"
                ELSE 0
        core == IF dash = 0 THEN v ELSE SubSeq(v, 1, dash - 1)
        pre  == IF dash = 0 THEN <<>> ELSE SubSeq(v, dash + 1, Len(v))
        nums == Split(core, ".")
        ids  == Split(pre, ".")
        ok   == /\ Len(nums) = 3
                /\ \A k \in 1..3 : NumericIdentifier(nums[k])
                /\ (dash # 0 => \A k \in 1..Len(ids) : PrereleaseIdentifier(ids[k]))
    IN  IF ok
        THEN [ok |-> TRUE, major |-> ToInt(nums[1]), minor |-> ToInt(nums[2]),
              patch |-> ToInt(nums[3]), prerelease |-> pre]
        ELSE [ok |-> FALSE, major |-> 0, minor |-> 0, patch |-> 0, prerelease |-> <<>>]

\* str(version_info)
VersionStr(vi) ==
    Join(<<IntToStr(vi.major), IntToStr(vi.minor), IntToStr(vi.patch)>>, ".")
    \o (IF vi.prerelease = <<>> THEN <<>> ELSE <<"-">> \o vi.prerelease)

BadSemver == [raised |-> "semver", returned |-> <<>>]

\* the release branch and the fully-resolved version
resolve_version(parts) ==
    IF Len(parts) = 3 /\ parts[3] = <<"x">>
    THEN LET version_info == parse_version(Join(<<parts[1], parts[2], <<"0">>>>, "."))
         IN  IF version_info.ok
             THEN [raised |-> "none",
                   returned |-> Join(<<IntToStr(version_info.major),
                                       IntToStr(version_info.minor), <<"x">>>>, ".")]
             ELSE BadSemver
    ELSE LET version_info == parse_version(Join(parts, "."))
         IN  IF version_info.ok
             THEN [raised |-> "none", returned |-> VersionStr(version_info)]
             ELSE BadSemver

\* mutant: a minor version is handed on to the semver parser
validate_version_NoAmbiguity(value, ign) ==
    IF value \in ign
    THEN [raised |-> "none", returned |-> value]
    ELSE resolve_version(Split(value, "."))

validate_version(value, ign) ==
    IF value \in ign
    THEN [raised |-> "none", returned |-> value]
    ELSE LET parts == Split(value, ".")
         IN  IF Len(parts) = 2
             THEN [raised |-> "ambiguous", returned |-> <<>>]
             ELSE resolve_version(parts)

----------------------------------------------------------------------------
(* Initial state: the command line and the configuration *)

Init ==
    /\ ref_value = <<>>
    /\ ignore = {}
    /\ version = NotValidated
    /\ result = NoResult
    /\ status = 0
    /\ lookup = "none"
    /\ responses = <<>>
    /\ repo \in Repos
    /\ dry_run \in BOOLEAN
    /\ milestone \in MilestoneFilters
    /\ label_team_map \in LabelTeamMaps
    /\ pc = "start"
    /\ diff_data = <<>>
    /\ i = 0
    /\ commit_ids = {}
    /\ commit_id = ""
    /\ pr_data = NoPR
    /\ choice_error = ""
    /\ choice = ""
    /\ teams = <<>>
    /\ t = 0
    /\ attempt = 0
    /\ key = "none"
    /\ displayed = NoDisplay
    /\ response = "none"
    /\ calls = 0
    /\ sleeps = <<>>
    /\ outcome = "none"
    /\ outcomes = <<>>
    /\ processed = <<>>
    /\ failed_before = FALSE

config == <<ref_value, ignore, version, repo, dry_run, milestone, label_team_map>>

\* the locals of one iteration of the loop over diff_data
locals == <<commit_id, pr_data, choice_error, choice, teams, t, attempt,
            key, displayed, responses, response, calls, sleeps, outcome, outcomes>>

ResetLocals ==
    /\ commit_id' = ""
    /\ pr_data' = NoPR
    /\ choice_error' = ""
    /\ choice' = ""
    /\ teams' = <<>>
    /\ t' = 0
    /\ attempt' = 0
    /\ key' = "none"
    /\ displayed' = NoDisplay
    /\ responses' = <<>>
    /\ response' = "none"
    /\ calls' = 0
    /\ sleeps' = <<>>
    /\ outcome' = "none"
    /\ outcomes' = <<>>

\* abort(...): the process exits
Abort ==
    /\ pc' = "aborted"
    /\ UNCHANGED <<config, diff_data, i, commit_ids, locals, processed, failed_before>>

\* an exception leaves testable (api_response.raise_for_status())
Raise ==
    /\ pc' = "raised"
    /\ UNCHANGED <<config, diff_data, i, commit_ids, locals, processed, failed_before>>

\* mutant: the loop does not advance
NextChange_Stay ==
    /\ pc' = "loop"
    /\ i' = i
    /\ ResetLocals
    /\ UNCHANGED <<config, diff_data, commit_ids, processed, failed_before>>

\* continue / break / the end of the body: on to the next change
NextChange ==
    /\ pc' = "loop"
    /\ i' = i + 1
    /\ ResetLocals
    /\ UNCHANGED <<config, diff_data, commit_ids, processed, failed_before>>

\* create_trello_card(trello, ts, pr_title, pr_url, pr_body, dry_run) is entered
CallCreate(ts) ==
    /\ pc' = "team"
    /\ teams' = ts
    /\ t' = 1
    /\ attempt' = 0
    /\ responses' = <<>>
    /\ response' = "none"
    /\ calls' = 0
    /\ sleeps' = <<>>
    /\ outcome' = "none"
    /\ outcomes' = <<>>

----------------------------------------------------------------------------
(* The steps of testable, in program order *)

\* repo not in ('integrations-core', 'datadog-agent')
CheckRepo ==
    /\ pc = "start"
    /\ UNCHANGED <<result, status, lookup>>
    /\ IF repo \notin {"integrations-core", "datadog-agent"}
       THEN Abort
       ELSE /\ pc' = "fetch"
            /\ UNCHANGED <<config, diff_data, i, commit_ids, locals, processed,
                           failed_before>>

\* git fetch --dry: it fails, or names one of the refs, or passes
Fetch ==
    /\ pc = "fetch"
    /\ UNCHANGED <<status, lookup>>
    /\ \E code \in {0, 1}, ref_in_stderr \in BOOLEAN :
          /\ result' = [cmd |-> "fetch", code |-> code, stale |-> ref_in_stderr,
                        stdout |-> <<>>]
          /\ IF code # 0 \/ ref_in_stderr
             THEN Abort
             ELSE /\ pc' = "difftag"
                  /\ UNCHANGED <<config, diff_data, i, commit_ids, locals, processed,
                                 failed_before>>

\* mutant: a failed tag log ends the run without trying the release branch
AfterDiff_NoFallback(cmd, code) ==
    IF code = 0 THEN "enumerate" ELSE "aborted"

\* where the run goes after a log command: on with its output, on to the
\* release branch when the tag failed, out when the branch failed too
AfterDiff(cmd, code) ==
    IF code = 0 THEN "enumerate"
    ELSE IF cmd = "tag" THEN "diffbranch" ELSE "aborted"

\* run_command of the log of ref..{target_ref}
RunDiff(cmd) ==
    /\ UNCHANGED <<status, lookup>>
    /\ \E code \in {0, 1} :
          /\ \E out \in (IF code = 0 THEN LogOutputs ELSE {<<>>}) :
                result' = [cmd |-> cmd, code |-> code, stale |-> FALSE, stdout |-> out]
          /\ pc' = AfterDiff(cmd, code)
    /\ UNCHANGED <<config, diff_data, i, commit_ids, locals, processed, failed_before>>

\* the log of refs/tags/{base_ref}..{target_ref}
DiffTag ==
    /\ pc = "difftag"
    /\ RunDiff("tag")

\* the log of origin/{base_ref}..{target_ref}
DiffBranch ==
    /\ pc = "diffbranch"
    /\ RunDiff("branch")

\* diff_data is built from the reversed lines of the log
Enumerate ==
    /\ pc = "enumerate"
    /\ diff_data' = Reverse(result.stdout)
    /\ result' = NoResult
    /\ i' = 1
    /\ pc' = "loop"
    /\ UNCHANGED <<status, lookup>>
    /\ UNCHANGED <<config, commit_ids, locals, processed, failed_before>>

\* the loop over diff_data is exhausted
LoopEnd ==
    /\ pc = "loop"
    /\ UNCHANGED <<result, status, lookup>>
    /\ i > Len(diff_data)
    /\ pc' = "done"
    /\ UNCHANGED <<config, diff_data, i, commit_ids, locals, processed, failed_before>>

\* the change is resolved to pull request data
Resolved(id, data) ==
    /\ pc' = "dedup"
    /\ commit_id' = id
    /\ pr_data' = data
    /\ UNCHANGED <<config, diff_data, i, commit_ids, choice_error, choice, teams, t,
                   attempt, key, displayed, responses, response, calls, sleeps, outcome, outcomes,
                   processed, failed_before>>

\* mutant: a 401 is handled like a 403
StatusOutcome_401Skips(how, code) ==
    CASE code = 401 -> "skip"
      [] code = 403 -> "skip"
      [] code = 404 /\ how = "number" -> "skip"
      [] code = 200 -> "ok"
      [] OTHER -> "raise"

\* what the loop does on a status code of a lookup made by number or by hash
StatusOutcome(how, code) ==
    CASE code = 401 -> "abort"
      [] code = 403 -> "skip"
      [] code = 404 /\ how = "number" -> "skip"
      [] code = 200 -> "ok"
      [] OTHER -> "raise"

\* get_pr(commit_id, user_config, raw=True) and the handling of its status
ResolveByNumber(id) ==
    \E code \in StatusCodes :
        /\ status' = code
        /\ lookup' = "number"
        /\ CASE StatusOutcome("number", code) = "abort" -> Abort
             [] StatusOutcome("number", code) = "skip" -> NextChange
             [] StatusOutcome("number", code) = "ok" ->
                   \E pr \in PullRequests : Resolved(id, pr)
             [] OTHER -> Raise

\* get_pr_from_hash(commit_hash, repo, user_config, raw=True) and the handling
\* of its status and of its items
ResolveByHash(commit_hash) ==
    \E code \in StatusCodes :
        /\ status' = code
        /\ lookup' = "hash"
        /\ CASE StatusOutcome("hash", code) = "abort" -> Abort
             [] StatusOutcome("hash", code) = "skip" -> NextChange
             [] StatusOutcome("hash", code) = "ok" ->
                   \E items \in SearchResults :
                       CASE items = "empty list" -> Resolved(commit_hash, NoPR)
                         [] items = "no items key" -> Resolved("", NoPR)
                         [] OTHER ->
                               \E pr \in PullRequests : Resolved(items, pr)
             [] OTHER -> Raise

\* the head of the loop body: the change is looked up on GitHub
Resolve ==
    /\ pc = "loop"
    /\ UNCHANGED result
    /\ i <= Len(diff_data)
    /\ LET commit_hash == diff_data[i][1]
           commit_subject == diff_data[i][2]
           id == parse_pr_number(commit_subject)
       IN  IF id # "" THEN ResolveByNumber(id) ELSE ResolveByHash(commit_hash)

\* the check against the seen ids
Dedup ==
    /\ pc = "dedup"
    /\ UNCHANGED <<result, status, lookup>>
    /\ IF IsDuplicate(commit_id, commit_ids)
       THEN NextChange
       ELSE /\ commit_ids' = AddSeen(commit_id, commit_ids)
            /\ processed' = Append(processed, commit_id)
            /\ pc' = "filter"
            /\ UNCHANGED <<config, diff_data, i, locals, failed_before>>

\* the documentation filter, the milestone filter and the routing by label
Filter ==
    /\ pc = "filter"
    /\ UNCHANGED <<result, status, lookup>>
    /\ LET ts == TeamsOf(pr_data.labels, label_team_map)
       IN  CASE documentation_pr(pr_data.labels) /\ nochangelog_pr(pr_data.labels) ->
                   NextChange
             [] MilestoneMismatch(milestone, pr_data.milestone) -> NextChange
             [] OTHER ->
                   IF ts # <<>>
                   THEN /\ CallCreate(ts)
                        /\ UNCHANGED <<config, diff_data, i, commit_ids, commit_id,
                                       pr_data, choice_error, choice, key, displayed,
                                       processed, failed_before>>
                   ELSE /\ pc' = "display"
                        /\ choice_error' = ""
                        /\ UNCHANGED <<config, diff_data, i, commit_ids, commit_id,
                                       pr_data, choice, teams, t, attempt, key,
                                       displayed, responses, response, calls, sleeps, outcome, outcomes,
                                       processed, failed_before>>

\* one rendering of the prompt: title, url, author, labels, milestone, body,
\* options, and the warning when choice_error is set
ShowPrompt ==
    /\ pc = "display"
    /\ UNCHANGED <<result, status, lookup>>
    /\ displayed' = [i |-> i, id |-> commit_id, error |-> choice_error # ""]
    /\ pc' = "read"
    /\ UNCHANGED <<config, diff_data, i, commit_ids, commit_id, pr_data, choice_error,
                   choice, teams, t, attempt, key, responses, response, calls, sleeps, outcome, outcomes,
                   processed, failed_before>>

\* mutant: Quit is not told apart from a team name
Chosen_QuitCreates(k, c, value) ==
    CASE value = "Skip" -> NextChange
      [] OTHER ->
            /\ CallCreate(<<value>>)
            /\ key' = k
            /\ choice' = c
            /\ choice_error' = ""
            /\ UNCHANGED <<config, diff_data, i, commit_ids, commit_id, pr_data,
                           displayed, processed, failed_before>>

\* what the loop does with key k once its choice c is found in options
Chosen(k, c, value) ==
    CASE value = "Skip" -> NextChange
      [] value = "Quit" ->
            /\ pc' = "quit"
            /\ key' = k
            /\ choice' = c
            /\ choice_error' = ""
            /\ UNCHANGED <<config, diff_data, i, commit_ids, commit_id, pr_data,
                           teams, t, attempt, displayed, responses, response, calls, sleeps, outcome,
                           outcomes, processed, failed_before>>
      [] OTHER ->
            /\ CallCreate(<<value>>)
            /\ key' = k
            /\ choice' = c
            /\ choice_error' = ""
            /\ UNCHANGED <<config, diff_data, i, commit_ids, commit_id, pr_data,
                           displayed, processed, failed_before>>

\* one click.getchar() and what follows it
ReadKey ==
    /\ pc = "read"
    /\ UNCHANGED <<result, status, lookup>>
    /\ \E k \in RawKeys :
          LET options == OptionsOf(repo)
              c == ResolveChoice(Strip(k), options)
          IN  IF Strip(k) = "NUL"
              THEN /\ key' = k
                   /\ UNCHANGED <<config, pc, diff_data, i, commit_ids, commit_id,
                                  pr_data, choice_error, choice, teams, t, attempt,
                                  displayed, responses, response, calls, sleeps, outcome, outcomes,
                                  processed, failed_before>>
              ELSE IF ~ InOptions(c, options)
              THEN /\ key' = k
                   /\ choice' = c
                   /\ choice_error' = InvalidMessage(c)
                   /\ pc' = "display"
                   /\ UNCHANGED <<config, diff_data, i, commit_ids, commit_id,
                                  pr_data, teams, t, attempt, displayed, responses, response, calls,
                                  sleeps, outcome, outcomes, processed, failed_before>>
              ELSE Chosen(k, c, OptionValue(c, options))

----------------------------------------------------------------------------
(* The steps of create_trello_card *)

\* the head of the loop over teams: the call returns, or the team is only
\* announced (dry run), or the creation attempts start
TeamStartWith(dry) ==
    /\ pc = "team"
    /\ UNCHANGED <<result, status, lookup>>
    /\ IF t > Len(teams)
       THEN NextChange
       ELSE IF dry
       THEN /\ outcome' = "intended"
            /\ pc' = "team_end"
            /\ UNCHANGED <<config, diff_data, i, commit_ids, commit_id, pr_data,
                           choice_error, choice, teams, t, attempt, key, displayed,
                           responses, response, calls, sleeps, outcomes, processed, failed_before>>
       ELSE /\ attempt' = 0
            /\ pc' = "attempt"
            /\ UNCHANGED <<config, diff_data, i, commit_ids, commit_id, pr_data,
                           choice_error, choice, teams, t, key, displayed, responses, response, calls,
                           sleeps, outcome, outcomes, processed, failed_before>>

\* mutant: the dry run flag is not looked at
TeamStart_IgnoreDryRun == TeamStartWith(FALSE)

TeamStart == TeamStartWith(dry_run)

\* mutant: the reported failure ends the run
AttemptNext_AbortOnFailure(r, att) ==
    IF r.report = "failure" THEN "aborted"
    ELSE IF r.break \/ att + 1 >= RangeAttempts THEN "team_end" ELSE "attempt"

\* where the loop over range(3) goes after a pass: out of it on a break or
\* after the last pass, else to the next pass
AttemptNext(r, att) ==
    IF r.break \/ att + 1 >= RangeAttempts THEN "team_end" ELSE "attempt"

\* one client.create_card(team, pr_title, body) and the handling of its answer
Attempt ==
    /\ pc = "attempt"
    /\ UNCHANGED <<result, status, lookup>>
    /\ \E resp \in CardResponses :
          LET r == AttemptResult(resp, attempt)
          IN  /\ responses' = Append(responses, resp)
              /\ response' = resp
              /\ calls' = calls + 1
              /\ sleeps' = IF r.sleep > 0 THEN Append(sleeps, r.sleep) ELSE sleeps
              /\ outcome' = r.report
              /\ pc' = AttemptNext(r, attempt)
              /\ attempt' = IF pc' = "attempt" THEN attempt + 1 ELSE attempt
    /\ UNCHANGED <<config, diff_data, i, commit_ids, commit_id, pr_data, choice_error,
                   choice, teams, t, key, displayed, outcomes, processed,
                   failed_before>>

\* the body of the loop over teams is left for the next team
NextTeam ==
    /\ pc = "team_end"
    /\ UNCHANGED <<result, status, lookup>>
    /\ outcomes' = Append(outcomes, outcome)
    /\ failed_before' = (failed_before \/ outcome \in {"none", "failure"})
    /\ t' = t + 1
    /\ attempt' = 0
    /\ responses' = <<>>
    /\ response' = "none"
    /\ calls' = 0
    /\ sleeps' = <<>>
    /\ outcome' = "none"
    /\ pc' = "team"
    /\ UNCHANGED <<config, diff_data, i, commit_ids, commit_id, pr_data, choice_error,
                   choice, teams, key, displayed, processed>>

----------------------------------------------------------------------------

Next ==
    \/ CheckRepo
    \/ Fetch
    \/ DiffTag
    \/ DiffBranch
    \/ Enumerate
    \/ LoopEnd
    \/ Resolve
    \/ Dedup
    \/ Filter
    \/ ShowPrompt
    \/ ReadKey
    \/ TeamStart
    \/ Attempt
    \/ NextTeam

Spec == Init /\ [][Next]_vars

----------------------------------------------------------------------------
(* The run with a user who answers: every statement of the program is
   executed once control reaches it, click.getchar() returns a key, and a
   key that leaves the prompt is entered again and again until taken *)

\* the key read is an option or empty: the loop leaves the prompt
ValidKeyRead == ReadKey /\ pc' \notin {"read", "display"}

\* a run that creates cards for integrations-core with teams mapped to
\* labels; any milestone filter, any diff, any answer of GitHub and Trello
LiveInit ==
    /\ Init
    /\ repo = "integrations-core"
    /\ ~ dry_run
    /\ label_team_map # {}

LiveSpec == LiveInit /\ [][Next]_vars /\ WF_vars(Next) /\ SF_vars(ValidKeyRead)

----------------------------------------------------------------------------
(* The argument callback on its own: click runs it before testable *)

InitVersion ==
    /\ ref_value \in RefValues
    /\ ignore \in IgnoreLists
    /\ version = NotValidated
    /\ result = NoResult
    /\ status = 0
    /\ lookup = "none"
    /\ responses = <<>>
    /\ repo = "integrations-core"
    /\ dry_run = FALSE
    /\ milestone = ""
    /\ label_team_map = {}
    /\ pc = "validate"
    /\ diff_data = <<>>
    /\ i = 0
    /\ commit_ids = {}
    /\ commit_id = ""
    /\ pr_data = NoPR
    /\ choice_error = ""
    /\ choice = ""
    /\ teams = <<>>
    /\ t = 0
    /\ attempt = 0
    /\ key = "none"
    /\ displayed = NoDisplay
    /\ response = "none"
    /\ calls = 0
    /\ sleeps = <<>>
    /\ outcome = "none"
    /\ outcomes = <<>>
    /\ processed = <<>>
    /\ failed_before = FALSE

\* the callback returns the normalised ref or raises click.BadParameter
ValidateVersion ==
    /\ pc = "validate"
    /\ version' = validate_version(ref_value, ignore)
    /\ pc' = IF version'.raised = "none" THEN "validated" ELSE "bad_parameter"
    /\ UNCHANGED <<ref_value, ignore, repo, dry_run, milestone, label_team_map>>
    /\ UNCHANGED <<result, status, lookup, diff_data, i, commit_ids, locals,
                   processed, failed_before>>

NextVersion == ValidateVersion

SpecVersion == InitVersion /\ [][NextVersion]_vars

----------------------------------------------------------------------------
(* Properties *)

\* the run is inside create_trello_card
InCreate == pc \in {"team", "attempt", "team_end"}

\* C1: every non-empty id gets past the dedup check at most once in a run,
\* and a change whose id is already in the seen ids is skipped at the check:
\* the loop goes on to the next change with nothing filtered, prompted or
\* dispatched for it.
C1_DedupOnce ==
    /\ [](\A a, b \in 1..Len(processed) :
             (a # b /\ processed[a] # "") => processed[a] # processed[b])
    /\ [][(pc = "dedup" /\ commit_id # "" /\ commit_id \in commit_ids)
             => (pc' = "loop" /\ i' = i + 1 /\ processed' = processed
                 /\ commit_ids' = commit_ids /\ teams' = <<>>
                 /\ displayed' = NoDisplay)]_vars

\* C1 witness: the second change resolves to PR 10, which the first change
\* already put in the seen ids
C1_Witness ==
    /\ pc = "dedup"
    /\ i = 2
    /\ commit_id = "10"
    /\ processed = <<"10">>
    /\ commit_ids = {"10"}

\* C2: in a non-dry run every team gets at least one and at most 3
\* client.create_card calls, and none after a call that returned success.
C2_BoundedAttempts ==
    /\ [](calls <= 3)
    /\ []((pc = "team_end" /\ ~ dry_run) => calls >= 1)
    /\ [][outcome = "success" => calls' <= calls]_vars

\* C2 witness: a team whose third call succeeded
C2_Witness ==
    /\ pc = "team_end"
    /\ ~ dry_run
    /\ calls = 3
    /\ outcome = "success"

\* C3: a team left after 3 calls without a success has had a failure
\* reported, whatever the answers were.
C3_ExhaustionReported ==
    (pc = "team_end" /\ ~ dry_run /\ outcome # "success") => outcome = "failure"

\* C4: every rate-limited answer is followed by a 10 second sleep and then
\* by another creation attempt for the same team.
C4_RateLimitedRetried ==
    response = "rate_limited"
        => (pc = "attempt" /\ sleeps # <<>> /\ sleeps[Len(sleeps)] = 10)

\* C5: a team that ends without a card aborts nothing: the call goes on to
\* the next team of the same list, a call that has gone through its teams
\* returns to the loop, which goes on to the next change, and the run never
\* ends from inside create_trello_card.
C5_FailureDoesNotAbort ==
    /\ [][(pc = "attempt" /\ pc' # "attempt") => pc' = "team_end"]_vars
    /\ [][(pc = "team_end" /\ outcome \in {"none", "failure"})
             => (pc' = "team" /\ t' = t + 1 /\ teams' = teams /\ i' = i)]_vars
    /\ [][(pc = "team" /\ t <= Len(teams) /\ ~ dry_run)
             => (pc' = "attempt" /\ t' = t /\ calls' = 0)]_vars
    /\ [][(pc = "team" /\ t > Len(teams)) => (pc' = "loop" /\ i' = i + 1)]_vars
    /\ [](pc \in {"aborted", "raised", "quit"} => outcome = "none")

\* C5 witness: a card is created although an earlier change ended with a
\* team that got none
C5_Witness ==
    /\ pc = "team_end"
    /\ failed_before
    /\ i >= 2
    /\ t = 1
    /\ outcome = "success"

\* C6: in a dry run client.create_card is never called and nothing sleeps;
\* each team of a call only gets the message announcing its card.
C6_DryRunNoCalls ==
    dry_run =>
        /\ pc # "attempt"
        /\ calls = 0
        /\ sleeps = <<>>
        /\ response = "none"
        /\ (pc = "team_end" => outcome = "intended")
        /\ \A k \in 1..Len(outcomes) : outcomes[k] = "intended"

\* C6 witness: a dry run announcing the second team of a call
C6_Witness ==
    /\ dry_run
    /\ pc = "team_end"
    /\ t = 2
    /\ outcomes = <<"intended">>
    /\ outcome = "intended"

\* the labels of a pull request that the label-to-team map knows
MappedLabels(labels) == {l \in labels : \E p \in label_team_map : p[1] = l}

\* the pull request is dropped by neither the documentation nor the
\* milestone filter
PassesFilters(pr) ==
    /\ ~ (documentation_pr(pr.labels) /\ nochangelog_pr(pr.labels))
    /\ ~ MilestoneMismatch(milestone, pr.milestone)

\* C7: a pull request that passed the filters and has a mapped label is
\* dispatched to the teams of all its mapped labels, no prompt is shown and
\* no key is read for it, and the loop goes on to the next change.
C7_AutoRoute ==
    /\ [][(pc = "filter" /\ PassesFilters(pr_data) /\ MappedLabels(pr_data.labels) # {})
             => /\ pc' = "team"
                /\ t' = 1
                /\ Len(teams') = Cardinality(MappedLabels(pr_data.labels))
                /\ {teams'[k] : k \in 1..Len(teams')}
                      = {p[2] : p \in {q \in label_team_map : q[1] \in pr_data.labels}}
                /\ i' = i]_vars
    /\ [](MappedLabels(pr_data.labels) # {}
             => (pc \notin {"display", "read", "quit"} /\ key = "none"
                 /\ displayed = NoDisplay))
    /\ [][(InCreate /\ ~ InCreate') => (pc' = "loop" /\ i' = i + 1)]_vars

\* C7 witness: a pull request routed to two teams without a prompt
C7_Witness ==
    /\ pc = "team"
    /\ t = 1
    /\ teams = <<"Containers", "Core">>
    /\ key = "none"
    /\ displayed = NoDisplay

\* C8: a Quit at a prompt ends the run on the spot: nothing is created for
\* the prompted pull request and no step of any kind follows.
C8_QuitEndsRun ==
    /\ [][(pc = "read" /\ key' = "q")
             => /\ pc' = "quit"
                /\ i' = i
                /\ commit_ids' = commit_ids
                /\ processed' = processed
                /\ failed_before' = failed_before]_vars
    /\ [](pc = "quit"
             => /\ key = "q"
                /\ teams = <<>>
                /\ calls = 0
                /\ sleeps = <<>>
                /\ response = "none"
                /\ outcome = "none")
    /\ [][pc # "quit"]_vars

\* C8 witness: the run has quit at the first of two changes
C8_Witness ==
    /\ pc = "quit"
    /\ i = 1
    /\ Len(diff_data) = 2

\* the keys of RawKeys that are no option of the repository's menu
InvalidKeys == IF repo = "integrations-core" THEN {"5", "x"} ELSE {"x"}

\* C9: a key that is no option leaves the loop on the same pull request
\* with no card created, and records an error; every rendering of the
\* prompt shows the current pull request and index, with the error exactly
\* when the key before it was no option (never on the first rendering).
C9_InvalidKeyRedisplays ==
    /\ [][(pc = "read" /\ key' \in InvalidKeys)
             => /\ pc' = "display"
                /\ i' = i
                /\ commit_id' = commit_id
                /\ teams' = <<>>
                /\ calls' = 0
                /\ processed' = processed
                /\ choice_error' # ""]_vars
    /\ [][pc = "display"
             => /\ pc' = "read"
                /\ displayed' = [i |-> i, id |-> commit_id, error |-> key \in InvalidKeys]]_vars
    /\ [](pc = "display" => key \in InvalidKeys \cup {"none"})

\* C9 witness: the prompt shown again, with the error, after an invalid key
C9_Witness ==
    /\ pc = "read"
    /\ key \in InvalidKeys
    /\ displayed.error
    /\ displayed.i = i
    /\ displayed.id = commit_id

\* the team of the first option of the repository's menu
FirstTeam == IF repo = "integrations-core" THEN "Integrations" ELSE "Core"

\* C10: an empty input does what the first key of the menu does: a card is
\* dispatched to the single team Integrations (integrations-core) or Core
\* (datadog-agent), never a skip, a quit or an invalid-option error.
C10_EmptyIsDefault ==
    /\ [][(pc = "read" /\ key' \in {"CR", "1"})
             => /\ pc' = "team"
                /\ t' = 1
                /\ teams' = <<FirstTeam>>
                /\ choice' = "1"
                /\ choice_error' = ""
                /\ i' = i]_vars
    /\ [](key = "CR" => (InCreate /\ teams = <<FirstTeam>> /\ choice_error = ""))

\* C10 witness: the card of the default team created after an empty input
C10_Witness ==
    /\ key = "CR"
    /\ pc = "team_end"
    /\ teams = <<FirstTeam>>
    /\ outcome = "success"

\* the pull request has a documentation label and no changelog label of a
\* type other than none
DocumentationOnly(pr) == Documentation \in pr.labels /\ Fixed \notin pr.labels

\* the step skips the change: no prompt, no card
SkipsChange ==
    /\ pc' = "loop"
    /\ i' = i + 1
    /\ teams' = <<>>
    /\ displayed' = NoDisplay
    /\ key' = "none"

\* the step keeps the change: it is dispatched or prompted
KeepsChange == pc' \in {"team", "display"} /\ i' = i

\* C11: a pull request with a documentation label and no changelog label, or
\* the none changelog type, is skipped with no prompt and no card even when
\* a label of it maps to a team; a documentation pull request with another
\* changelog type, and one without a documentation label, are not skipped
\* by this rule.
C11_DocumentationSkipped ==
    /\ [][(pc = "filter" /\ DocumentationOnly(pr_data)) => SkipsChange]_vars
    /\ [][(pc = "filter" /\ ~ DocumentationOnly(pr_data)
             /\ (milestone = "" \/ pr_data.milestone = milestone))
             => KeepsChange]_vars

\* C11 witness: a documentation pull request of the none changelog type
\* whose team label is mapped, at the filter
C11_Witness ==
    /\ pc = "filter"
    /\ pr_data.labels = {Documentation, NoChangelog, TeamCore}
    /\ MappedLabels(pr_data.labels) # {}

\* C12: under a requested milestone every pull request with another
\* milestone, or with none, is skipped with no prompt and no card even when
\* its labels map to a team; without a requested milestone no pull request
\* is skipped for its milestone.
C12_MilestoneFilter ==
    /\ [][(pc = "filter" /\ milestone # "" /\ pr_data.milestone # milestone)
             => SkipsChange]_vars
    /\ [][(pc = "filter" /\ milestone = "" /\ ~ DocumentationOnly(pr_data))
             => KeepsChange]_vars

\* C12 witness: under the filter 7.17.0, a pull request without a milestone
\* whose team label is mapped, at the filter
C12_Witness ==
    /\ pc = "filter"
    /\ milestone = "7.17.0"
    /\ pr_data = [labels |-> {Fixed, TeamCore}, milestone |-> ""]
    /\ MappedLabels(pr_data.labels) # {}

\* C13: a 403 or a 404 answer of a GitHub lookup, by number or by hash,
\* only skips the change: the run is at the head of the loop for the next
\* change (or done after the last one), never ended by the answer.
C13_RecoverableSkip == status \in {403, 404} => pc \in {"loop", "done"}

\* the step is a GitHub lookup
IsLookup == pc = "loop" /\ i <= Len(diff_data)

\* the run has ended
Ended == pc \in {"done", "quit", "aborted", "raised"}

\* C14: a 401 answer of a GitHub lookup, by number or by hash, aborts the
\* run, and any other unexpected status ends it too: no step follows, and
\* nothing was prompted or dispatched for the change.
C14_AuthDeniedAborts ==
    /\ [][(IsLookup /\ status' = 401) => pc' = "aborted"]_vars
    /\ [][(IsLookup /\ status' = 500) => pc' = "raised"]_vars
    /\ [][pc \notin {"aborted", "raised"}]_vars
    /\ [](pc \in {"aborted", "raised"}
             => /\ teams = <<>>
                /\ calls = 0
                /\ displayed = NoDisplay
                /\ key = "none")

\* C14 witness: the lookup of the first of two changes was answered 401
C14_Witness ==
    /\ pc = "aborted"
    /\ status = 401
    /\ i = 1
    /\ Len(diff_data) = 2

\* C15: pull request data is fetched at most once per id in a run: no
\* lookup by number returns the data of an id that an earlier lookup of the
\* run already brought in (every id in commit_ids was fetched).
C15_FetchedOnce ==
    ~ (pc = "dedup" /\ lookup = "number" /\ status = 200 /\ commit_id \in commit_ids)

\* C16: two rate-limited answers then a success make exactly 3 calls and
\* exactly 2 sleeps, both of 10 seconds, with the success reported and no
\* failure.
C16_RateLimitedTwiceThenSuccess ==
    /\ responses = <<"rate_limited", "rate_limited">>
          => (pc = "attempt" /\ calls = 2 /\ sleeps = <<10, 10>> /\ outcome = "none")
    /\ responses = <<"rate_limited", "rate_limited", "success">>
          => (pc = "team_end" /\ calls = 3 /\ sleeps = <<10, 10>>
              /\ outcome = "success")

\* C16 witness: the team left after rate-limited, rate-limited, success
C16_Witness ==
    /\ pc = "team_end"
    /\ responses = <<"rate_limited", "rate_limited", "success">>

\* C17: three error answers report the failure after exactly 3 calls, with a
\* sleep of 2 seconds after the first and after the second call and none
\* after the third.
C17_ThreeErrors ==
    /\ responses = <<"error">>
          => (pc = "attempt" /\ calls = 1 /\ sleeps = <<2>> /\ outcome = "none")
    /\ responses = <<"error", "error">>
          => (pc = "attempt" /\ calls = 2 /\ sleeps = <<2, 2>> /\ outcome = "none")
    /\ responses = <<"error", "error", "error">>
          => (pc = "team_end" /\ calls = 3 /\ sleeps = <<2, 2>> /\ outcome = "failure")

\* C17 witness: the team left after three errors
C17_Witness ==
    /\ pc = "team_end"
    /\ responses = <<"error", "error", "error">>

\* C18: the log is taken against refs/tags/{base} first and against
\* origin/{base} only after the tag log failed; the enumeration aborts
\* exactly when both logs fail, or the fetch check fails or names a ref; a
\* run aborted there has looked nothing up, prompted nothing and created
\* nothing, and makes no further step.
C18_TagThenBranch ==
    /\ [][pc = "fetch"
             => /\ result'.cmd = "fetch"
                /\ pc' = IF result'.code # 0 \/ result'.stale
                         THEN "aborted" ELSE "difftag"]_vars
    /\ [][pc = "difftag"
             => /\ result'.cmd = "tag"
                /\ pc' = IF result'.code = 0 THEN "enumerate" ELSE "diffbranch"]_vars
    /\ [][pc = "diffbranch"
             => /\ result'.cmd = "branch"
                /\ pc' = IF result'.code = 0 THEN "enumerate" ELSE "aborted"]_vars
    /\ [][(pc # "diffbranch" /\ pc' = "diffbranch")
             => (pc = "difftag" /\ result'.code # 0)]_vars
    /\ []((pc = "aborted" /\ result.cmd # "none")
             => /\ \/ result.cmd = "branch" /\ result.code # 0
                   \/ result.cmd = "fetch" /\ (result.code # 0 \/ result.stale)
                /\ lookup = "none"
                /\ status = 0
                /\ diff_data = <<>>
                /\ processed = <<>>
                /\ displayed = NoDisplay
                /\ teams = <<>>
                /\ calls = 0)
    /\ [][pc # "aborted"]_vars

\* C18 witness: the run aborted after the log against origin/{base} failed
C18_Witness ==
    /\ pc = "aborted"
    /\ result.cmd = "branch"
    /\ result.code # 0

\* exactly one '.' separator
TwoComponent(value) == Cardinality({k \in 1..Len(value) : value[k] = "."}) = 1

\* C19: validate_version rejects every ref with exactly one '.' separator
\* with the ambiguity error and returns no value for it.
C19_TwoComponentRejected ==
    (pc # "validate" /\ TwoComponent(ref_value))
        => /\ pc = "bad_parameter"
           /\ version.raised = "ambiguous"
           /\ version.returned = <<>>

\* C19 witness: 7.7 was given and rejected
C19_Witness ==
    /\ pc = "bad_parameter"
    /\ ref_value = <<"7", ".", "7">>
    /\ version.raised = "ambiguous"

\* C20: with a user who eventually enters an option or an empty input at
\* each prompt the run ends; the index only moves on by one change at a
\* time over an unchanged diff, a dispatch makes at most 3 attempts per
\* team, and the prompt is only kept by a key that is no option or by the
\* null byte.
C20_Terminates ==
    /\ <>Ended
    /\ [][i' = i \/ (i' = i + 1 /\ pc' = "loop")]_vars
    /\ [][pc \notin {"fetch", "difftag", "diffbranch", "enumerate", "start"}
             => diff_data' = diff_data]_vars
    /\ [](calls <= creation_attempts /\ attempt < creation_attempts)
    /\ [][(pc = "read" /\ pc' \in {"read", "display"})
             => key' \in InvalidKeys \cup {"NUL"}]_vars

\* C20 witness: the longest diff was walked to its end through a prompt
\* that was first answered with a key that is no option
C20_Witness ==
    /\ pc = "done"
    /\ Len(diff_data) >= 2
    /\ i = Len(diff_data) + 1
    /\ processed # <<>>

====
